---- MODULE Spec2Model ----
(***************************************************************************)
(* A model of at-api-rs: Realtime::fetch_combined (src/realtime.rs), the   *)
(* bearing deserializer and Entity::substr_to_char (src/types/gtfs.rs).    *)
(*                                                                         *)
(* Option<T> is modelled as a sequence of length at most one: None is <<>> *)
(* and Some(x) is <<x>>.                                                   *)
(***************************************************************************)
EXTENDS Integers, Sequences, FiniteSets, TLC

VARIABLES pc, resp, entities, result, wire, bearing, str, c, substr

vars == <<pc, resp, entities, result, wire, bearing, str, c, substr>>

None == <<>>

Some(x) == <<x>>

Option(S) == {None} \cup {Some(x) : x \in S}

(* Longest entity list received in one response. *)
MaxFeed == 3

(* Longest string handed to the bearing deserializer. *)
MaxBearingLen == 3

(* Longest identifier handed to substr_to_char. *)
MaxStrLen == 3

SeqsUpTo(S, n) == UNION {[1..k -> S] : k \in 0..n}

(***************************************************************************)
(* types/gtfs.rs, types/mod.rs: the data model.  Fields the merge never    *)
(* reads or writes are left out of the records; they travel with the       *)
(* record they belong to.                                                  *)
(***************************************************************************)
Ids == {"T1", "V1"}

TripUpdate == [delay : {Some(0), Some(30)}]

TripDescriptor == [trip_id : Option(Ids)]

Position == {"p1"}

VehiclePosition == [trip : Option(TripDescriptor), position : Option(Position)]

Entity == [id : Ids, trip_update : Option(TripUpdate),
           vehicle : Option(VehiclePosition), is_deleted : BOOLEAN]

Header == {"h1"}

(* The entities the upstream sends: records carrying a trip update only,   *)
(* records carrying a vehicle position only (with every shape of trip      *)
(* linkage), and records carrying both.                                    *)
WireEntity ==
    {[id |-> i, trip_update |-> tu, vehicle |-> None, is_deleted |-> FALSE] :
        i \in Ids, tu \in Option(TripUpdate)}
    \cup
    {[id |-> i, trip_update |-> None,
      vehicle |-> Some([trip |-> t, position |-> Some("p1")]),
      is_deleted |-> FALSE] : i \in Ids, t \in Option(TripDescriptor)}
    \cup
    {[id |-> i, trip_update |-> tu,
      vehicle |-> Some([trip |-> Some([trip_id |-> Some("T1")]), position |-> None]),
      is_deleted |-> TRUE] : i \in Ids, tu \in {None, Some([delay |-> Some(0)])}}

(* What the HTTP exchange can bring back: send() fails, or a body arrives  *)
(* that json::<ATResponse>() rejects, or a body that decodes to an         *)
(* ATResponse with a header and an entity list.                            *)
ATResponse ==
    {[sent |-> FALSE, valid |-> FALSE, header |-> h, entity |-> <<>>] : h \in Header}
    \cup
    [sent : {TRUE}, valid : BOOLEAN, header : Header,
     entity : SeqsUpTo(WireEntity, MaxFeed)]

Pending == [kind |-> "Pending", error |-> None, header |-> None, merged |-> <<>>]

Err(e) == [kind |-> "Err", error |-> Some(e), header |-> None, merged |-> <<>>]

Ok(h, m) == [kind |-> "Ok", error |-> None, header |-> Some(h), merged |-> m]

(***************************************************************************)
(* realtime.rs: fetch_combined                                             *)
(***************************************************************************)

(* into_iter().map(|e| (e.id.clone(), e)).collect::<HashMap>(): entries    *)
(* are inserted in input order, an insert on an existing key replaces it.  *)
RECURSIVE CollectFirstWins(_)
CollectFirstWins(feed) ==
    IF feed = <<>> THEN <<>>
    ELSE LET hm == CollectFirstWins(SubSeq(feed, 1, Len(feed) - 1))
             e  == feed[Len(feed)]
         IN  IF e.id \in DOMAIN hm THEN hm ELSE (e.id :> e) @@ hm

RECURSIVE Collect(_)
Collect(feed) ==
    IF feed = <<>> THEN <<>>
    ELSE LET hm == Collect(SubSeq(feed, 1, Len(feed) - 1))
             e  == feed[Len(feed)]
         IN  (e.id :> e) @@ hm

(* fn merge(ent, hm) -> Option<Entity> *)
mergeAlwaysReplace(ent, hm) ==
    IF ent.vehicle = None THEN None
    ELSE IF ent.vehicle[1].trip = None THEN None
    ELSE IF ent.vehicle[1].trip[1].trip_id = None THEN None
    ELSE LET trip_id == ent.vehicle[1].trip[1].trip_id[1]
         IN  IF trip_id \notin DOMAIN hm THEN None
             ELSE Some([ent EXCEPT !.trip_update = hm[trip_id].trip_update])

mergeNoLookup(ent, hm) ==
    IF ent.vehicle = None THEN None
    ELSE IF ent.vehicle[1].trip = None THEN None
    ELSE IF ent.vehicle[1].trip[1].trip_id = None THEN None
    ELSE Some(ent)

mergeResetsDeleted(ent, hm) ==
    IF ent.vehicle = None THEN None
    ELSE IF ent.vehicle[1].trip = None THEN None
    ELSE IF ent.vehicle[1].trip[1].trip_id = None THEN None
    ELSE LET trip_id == ent.vehicle[1].trip[1].trip_id[1]
         IN  IF trip_id \notin DOMAIN hm THEN None
             ELSE Some([id |-> ent.id,
                        trip_update |-> IF hm[trip_id].trip_update # None
                                        THEN hm[trip_id].trip_update
                                        ELSE ent.trip_update,
                        vehicle |-> ent.vehicle,
                        is_deleted |-> FALSE])

mergeTakesMatched(ent, hm) ==
    IF ent.vehicle = None THEN None
    ELSE IF ent.vehicle[1].trip = None THEN None
    ELSE IF ent.vehicle[1].trip[1].trip_id = None THEN None
    ELSE LET trip_id == ent.vehicle[1].trip[1].trip_id[1]
         IN  IF trip_id \notin DOMAIN hm THEN None
             ELSE Some(hm[trip_id])

merge(ent, hm) ==
    IF ent.vehicle = None THEN None
    ELSE IF ent.vehicle[1].trip = None THEN None
    ELSE IF ent.vehicle[1].trip[1].trip_id = None THEN None
    ELSE LET trip_id == ent.vehicle[1].trip[1].trip_id[1]
         IN  IF trip_id \notin DOMAIN hm THEN None
             ELSE LET tu_ent == hm[trip_id]
                  IN  Some([ent EXCEPT !.trip_update =
                               IF tu_ent.trip_update # None
                               THEN tu_ent.trip_update ELSE @])

(* entities.iter(): a HashMap is visited once per key, in an order the     *)
(* program does not control.                                               *)
IterOrders(hm) ==
    {o \in [1..Cardinality(DOMAIN hm) -> DOMAIN hm] :
        \A i, j \in DOMAIN o : i # j => o[i] # o[j]}

(* for (_, ent) in entities.iter() { if let Some(ent) = merge(..) { push } } *)
RECURSIVE MergeLoop(_, _)
MergeLoop(order, hm) ==
    IF order = <<>> THEN <<>>
    ELSE MergeLoop(SubSeq(order, 1, Len(order) - 1), hm)
         \o merge(hm[order[Len(order)]], hm)

(* .send().await? fails: the error is converted by From<HTTPError>.        *)
SendFails ==
    /\ pc = "fetch"
    /\ ~resp.sent
    /\ result' = Err("Request")
    /\ pc' = "done"
    /\ UNCHANGED <<resp, entities, wire, bearing, str, c, substr>>

(* .json::<ATResponse>().await? fails.                                      *)
JsonFailsReturnsPartial ==
    /\ pc = "fetch"
    /\ resp.sent /\ ~resp.valid
    /\ result' = Ok(resp.header, <<>>)
    /\ pc' = "done"
    /\ UNCHANGED <<resp, entities, wire, bearing, str, c, substr>>

JsonFails ==
    /\ pc = "fetch"
    /\ resp.sent /\ ~resp.valid
    /\ result' = Err("Request")
    /\ pc' = "done"
    /\ UNCHANGED <<resp, entities, wire, bearing, str, c, substr>>

(* Both succeed: build the index, walk it, return header and merged list.  *)
MergeOverFeed ==
    /\ pc = "fetch"
    /\ resp.sent /\ resp.valid
    /\ entities' = Collect(resp.entity)
    /\ result' = Ok(resp.header,
                    LET RECURSIVE Walk(_)
                        Walk(k) == IF k = 0 THEN <<>>
                                   ELSE Walk(k - 1) \o merge(resp.entity[k], entities')
                    IN  Walk(Len(resp.entity)))
    /\ pc' = "done"
    /\ UNCHANGED <<resp, wire, bearing, str, c, substr>>

MergeAndReturn ==
    /\ pc = "fetch"
    /\ resp.sent /\ resp.valid
    /\ entities' = Collect(resp.entity)
    /\ \E order \in IterOrders(entities') :
           result' = Ok(resp.header, MergeLoop(order, entities'))
    /\ pc' = "done"
    /\ UNCHANGED <<resp, wire, bearing, str, c, substr>>

fetch_combined == SendFails \/ JsonFails \/ MergeAndReturn

Init ==
    /\ pc = "fetch"
    /\ resp \in ATResponse
    /\ entities = <<>>
    /\ result = Pending
    /\ wire = None
    /\ bearing = None
    /\ str = <<>>
    /\ c = "-"
    /\ substr = None

Next == fetch_combined

Spec == Init /\ [][Next]_vars


(***************************************************************************)
(* types/gtfs.rs: deserialize_bearing                                      *)
(***************************************************************************)

(* An f32 value m * 10^(-e); every value the model produces has a single   *)
(* representation (no digit 0 occurs in the strings, UInt values have e=0).*)
F32(m, e) == [m |-> m, e |-> e]

BearingChars == {"1", "7", ".", "a"}

(* The JSON value found at "bearing", or Absent when the key is missing.   *)
JsonValue ==
    [shape : {"Absent", "Null", "Bool", "Array", "Object"},
     n : {0}, f : {F32(0, 0)}, s : {<<>>}]
    \cup [shape : {"UInt"}, n : {0, 7, 32767, 32768, 65536}, f : {F32(0, 0)}, s : {<<>>}]
    \cup [shape : {"NegInt"}, n : {-1}, f : {F32(0, 0)}, s : {<<>>}]
    \cup [shape : {"Float"}, n : {0}, f : {F32(125, 1), F32(7, 0)}, s : {<<>>}]
    \cup [shape : {"String"}, n : {0}, f : {F32(0, 0)},
          s : SeqsUpTo(BearingChars, MaxBearingLen)]

VOk(v) == [status |-> "Ok", value |-> v]

VErr == [status |-> "Err", value |-> None]

I16_MAX == 32767

IsDigit(ch) == ch \in {"1", "7"}

DigitVal(ch) == IF ch = "7" THEN 7 ELSE 1

RECURSIVE DigitsVal(_)
DigitsVal(ds) ==
    IF ds = <<>> THEN 0
    ELSE 10 * DigitsVal(SubSeq(ds, 1, Len(ds) - 1)) + DigitVal(ds[Len(ds)])

(* <f32 as FromStr>::from_str on the strings of BearingChars: digits with  *)
(* at most one decimal point and at least one digit.                       *)
ParseF32(s) ==
    LET dots   == {i \in DOMAIN s : s[i] = "."}
        digits == SelectSeq(s, IsDigit)
    IN  IF /\ \A i \in DOMAIN s : IsDigit(s[i]) \/ s[i] = "."
           /\ Cardinality(dots) <= 1
           /\ digits # <<>>
        THEN VOk(F32(DigitsVal(digits),
                     IF dots = {} THEN 0 ELSE Len(s) - (CHOOSE i \in dots : TRUE)))
        ELSE VErr

visit_str(v) == ParseF32(v)

visit_f32(v) == VOk(v)

visit_u64(v) == IF v <= I16_MAX THEN VOk(F32(v, 0)) ELSE VErr

(* deserializer.deserialize_any(Bearing): the JSON deserializer hands a    *)
(* non-negative integer to visit_u64, a string to visit_str, a number with *)
(* a fraction to visit_f64, a negative integer to visit_i64, null to       *)
(* visit_unit, and so on.  Bearing defines only visit_str, visit_string,   *)
(* visit_f32 and visit_u64; every other visit_* is the trait's default,    *)
(* which fails with invalid_type.                                          *)
deserialize_any(w) ==
    CASE w.shape = "UInt"   -> visit_u64(w.n)
      [] w.shape = "String" -> visit_str(w.s)
      [] OTHER              -> VErr

(* Ok(deserializer.deserialize_any(Bearing).ok()) *)
deserialize_bearing(w) ==
    LET r == deserialize_any(w)
    IN  VOk(IF r.status = "Ok" THEN Some(r.value) ELSE None)

(* Position.bearing: #[serde(default)] gives None for a missing key,       *)
(* otherwise deserialize_with = "deserialize_bearing".                     *)
Position_bearing(w) ==
    IF w.shape = "Absent" THEN VOk(None) ELSE deserialize_bearing(w)

DecodePosition ==
    /\ pc = "decode"
    /\ bearing' = Position_bearing(wire)
    /\ pc' = "decoded"
    /\ UNCHANGED <<resp, entities, result, wire, str, c, substr>>

InitBearing ==
    /\ pc = "decode"
    /\ wire \in JsonValue
    /\ bearing = None
    /\ resp = [sent |-> FALSE, valid |-> FALSE, header |-> "h1", entity |-> <<>>]
    /\ entities = <<>>
    /\ result = Pending
    /\ str = <<>>
    /\ c = "-"
    /\ substr = None

NextBearing == DecodePosition

SpecBearing == InitBearing /\ [][NextBearing]_vars

(***************************************************************************)
(* types/gtfs.rs: Entity::substr_to_char                                   *)
(***************************************************************************)

(* A string is the sequence of its chars; U+00E9 takes two bytes in UTF-8, *)
(* the others one.                                                         *)
Chars == {"1", "-", "v", "U+00E9"}

len_utf8(ch) == IF ch = "U+00E9" THEN 2 ELSE 1

RECURSIVE ByteLen(_)
ByteLen(s) == IF s = <<>> THEN 0 ELSE len_utf8(Head(s)) + ByteLen(Tail(s))

(* str::find(char): the byte offset of the first match. *)
find(s, ch) ==
    IF \A i \in DOMAIN s : s[i] # ch THEN None
    ELSE LET first == CHOOSE i \in DOMAIN s :
                          s[i] = ch /\ \A j \in 1..(i - 1) : s[j] # ch
         IN  Some(ByteLen(SubSeq(s, 1, first - 1)))

(* Iterator::take(n) over str.chars(), collected. *)
take(s, n) == SubSeq(s, 1, IF n < Len(s) THEN n ELSE Len(s))

(* Some(str.chars().take(str.find(c)?).collect()) *)
substr_to_char(s, ch) ==
    IF find(s, ch) = None THEN None ELSE Some(take(s, find(s, ch)[1]))

CallSubstrToChar ==
    /\ pc = "substr"
    /\ substr' = substr_to_char(str, c)
    /\ pc' = "returned"
    /\ UNCHANGED <<resp, entities, result, wire, bearing, str, c>>

InitSubstr ==
    /\ pc = "substr"
    /\ str \in SeqsUpTo(Chars, MaxStrLen)
    /\ c \in Chars
    /\ substr = None
    /\ resp = [sent |-> FALSE, valid |-> FALSE, header |-> "h1", entity |-> <<>>]
    /\ entities = <<>>
    /\ result = Pending
    /\ wire = None
    /\ bearing = None

NextSubstr == CallSubstrToChar

SpecSubstr == InitSubstr /\ [][NextSubstr]_vars


(***************************************************************************)
(* Properties of fetch_combined                                            *)
(***************************************************************************)
Feed == resp.entity

Merged == result.merged

Returned == pc = "done" /\ result.kind = "Ok"

HasId(id) == \E i \in DOMAIN Feed : Feed[i].id = id

(* The position of the last entity of the feed that carries this id. *)
LastIdx(id) ==
    CHOOSE i \in DOMAIN Feed :
        Feed[i].id = id /\ \A j \in DOMAIN Feed : Feed[j].id = id => j <= i

Last(id) == Feed[LastIdx(id)]

Resolves(e) ==
    /\ e.vehicle # None
    /\ e.vehicle[1].trip # None
    /\ e.vehicle[1].trip[1].trip_id # None

TripIdOf(e) == e.vehicle[1].trip[1].trip_id[1]

Joins(e) == Resolves(e) /\ HasId(TripIdOf(e))

(* The merged entities that are copies of e apart from trip_update. *)
CopiesOf(e) ==
    {k \in DOMAIN Merged :
        /\ Merged[k].id = e.id
        /\ Merged[k].vehicle = e.vehicle
        /\ Merged[k].is_deleted = e.is_deleted}

(* C1 as stated: the merged entity of a vehicle-position entity whose      *)
(* trip_id matches an index entry always carries that entry's trip_update, *)
(* also when the entry has none.                                           *)
C1_AlwaysReplaced ==
    Returned =>
        \A k \in DOMAIN Merged :
            LET src == Last(Merged[k].id)
            IN  Joins(src) =>
                    Merged[k].trip_update = Last(TripIdOf(src)).trip_update

(* C1 amended: the merged entity carries the matched entry's trip_update   *)
(* when that entry has one, and otherwise keeps the trip_update of the     *)
(* vehicle-position entity itself.                                         *)
C1_ReplacedWhenPresent ==
    Returned =>
        \A k \in DOMAIN Merged :
            LET src     == Last(Merged[k].id)
                matched == Last(TripIdOf(src))
            IN  Joins(src) =>
                    Merged[k].trip_update =
                        IF matched.trip_update # None
                        THEN matched.trip_update ELSE src.trip_update

C1_Witness ==
    /\ Returned
    /\ \E k \in DOMAIN Merged :
           LET src == Last(Merged[k].id)
           IN  /\ Joins(src)
               /\ Last(TripIdOf(src)).trip_update = None
               /\ Last(TripIdOf(src)).id # src.id
               /\ src.trip_update # None
               /\ Merged[k].trip_update = src.trip_update

(* C2: every merged entity resolves vehicle, trip and trip_id to the id of *)
(* an entity of the feed, and a feed entity that does not resolve or does  *)
(* not match has no copy in the merged output.                             *)
C2_OnlyJoinable ==
    Returned =>
        /\ \A k \in DOMAIN Merged : Joins(Merged[k])
        /\ \A i \in DOMAIN Feed : ~Joins(Feed[i]) => CopiesOf(Feed[i]) = {}

C2_Witness ==
    /\ Returned
    /\ Merged # <<>>
    /\ \E i \in DOMAIN Feed : Feed[i].vehicle # None /\ ~Resolves(Feed[i])
    /\ \E i \in DOMAIN Feed : Resolves(Feed[i]) /\ ~HasId(TripIdOf(Feed[i]))

C5_EveryJoinerOnce ==
    Returned =>
        \A i \in DOMAIN Feed :
            Joins(Feed[i]) => Cardinality(CopiesOf(Feed[i])) = 1

(* C5 amended: every feed entity that joins and is the last entity of the  *)
(* feed with its id has exactly one copy in the merged output, with its    *)
(* id, vehicle and is_deleted; every merged entity is such a copy.         *)
C5_LastJoinerOnce ==
    Returned =>
        /\ \A i \in DOMAIN Feed :
               (Joins(Feed[i]) /\ i = LastIdx(Feed[i].id)) =>
                   Cardinality(CopiesOf(Feed[i])) = 1
        /\ \A k \in DOMAIN Merged : k \in CopiesOf(Last(Merged[k].id))

C5_Witness ==
    /\ Returned
    /\ Len(Feed) = 2
    /\ Len(Merged) = 1
    /\ \E i, j \in DOMAIN Feed :
           /\ Feed[i].id = "T1" /\ Feed[i].trip_update = Some([delay |-> Some(30)])
           /\ Feed[i].vehicle = None
           /\ Feed[j].id = "V1" /\ Feed[j].trip_update = None
           /\ Joins(Feed[j]) /\ TripIdOf(Feed[j]) = "T1"
           /\ Merged[1].id = "V1"
           /\ Merged[1].trip_update[1].delay = Some(30)
           /\ Merged[1].vehicle[1].position = Feed[j].vehicle[1].position
           /\ Merged[1].vehicle[1].position # None

(* C9: the call fails exactly when the request or the decoding failed; a   *)
(* failure carries the request error and neither a header nor entities; a  *)
(* success carries the header of the decoded response.                     *)
C9_AllOrNothing ==
    pc = "done" =>
        /\ result.kind \in {"Ok", "Err"}
        /\ result.kind = "Err" <=> (~resp.sent \/ ~resp.valid)
        /\ result.kind = "Err" =>
               /\ result.error = Some("Request")
               /\ result.header = None
               /\ result.merged = <<>>
        /\ result.kind = "Ok" => result.header = Some(resp.header)

C9_Witness ==
    /\ pc = "done"
    /\ resp.sent /\ ~resp.valid
    /\ \E i \in DOMAIN Feed : Joins(Feed[i])
    /\ result.kind = "Err"

(* C10: the merged entities have pairwise distinct ids and are no more     *)
(* than the distinct ids of the feed.                                      *)
C10_DistinctIds ==
    Returned =>
        /\ \A k, l \in DOMAIN Merged : k # l => Merged[k].id # Merged[l].id
        /\ Len(Merged) <= Cardinality({Feed[i].id : i \in DOMAIN Feed})

C10_Witness ==
    /\ Returned
    /\ Len(Merged) = 2
    /\ \E i, j \in DOMAIN Feed :
           i # j /\ Feed[i].id = Feed[j].id /\ Joins(Feed[i]) /\ Joins(Feed[j])

(***************************************************************************)
(* Properties of deserialize_bearing                                       *)
(***************************************************************************)
Decoded == pc = "decoded"

NonNumeric(s) == \E i \in DOMAIN s : ~IsDigit(s[i]) /\ s[i] # "."

(* C6: an unsigned integer beyond the i16 range, a non-numeric string and  *)
(* a boolean, array or object make the decoding fail, and only a missing   *)
(* or null bearing decodes to None.                                        *)
C6_RejectsBadInput ==
    Decoded =>
        /\ (wire.shape = "UInt" /\ wire.n > I16_MAX) => bearing.status = "Err"
        /\ (wire.shape = "String" /\ NonNumeric(wire.s)) => bearing.status = "Err"
        /\ wire.shape \in {"Bool", "Array", "Object"} => bearing.status = "Err"
        /\ bearing = VOk(None) => wire.shape \in {"Absent", "Null"}

(* C7: a float decodes to itself, an unsigned integer within the i16 range *)
(* to the same number, a numeric string to its value; none of them to None.*)
C7_AcceptedShapesYieldValue ==
    Decoded =>
        /\ wire.shape = "Float" => bearing = VOk(Some(wire.f))
        /\ (wire.shape = "UInt" /\ wire.n <= I16_MAX) =>
               bearing = VOk(Some(F32(wire.n, 0)))
        /\ (wire.shape = "String" /\ wire.s = <<"7">>) =>
               bearing = VOk(Some(F32(7, 0)))

(***************************************************************************)
(* Properties of substr_to_char                                            *)
(***************************************************************************)

(* C8: the result is the chars of str before the first occurrence of c,    *)
(* and None when c does not occur in str.                                  *)
C8_PrefixBeforeSeparator ==
    pc = "returned" =>
        IF \E i \in DOMAIN str : str[i] = c
        THEN \E i \in DOMAIN str :
                 /\ str[i] = c
                 /\ \A j \in 1..(i - 1) : str[j] # c
                 /\ substr = Some(SubSeq(str, 1, i - 1))
        ELSE substr = None

====
